---- MODULE Spec2Model ----
(***************************************************************************)
(* The outbound chat-API client of tauri-client/src-tauri/src/main.rs:     *)
(* the two commands send_chat_message and test_endpoint, the JSON shapes   *)
(* they put on and take off the wire, and the HTTP layer they await on.    *)
(*                                                                         *)
(* Each invocation of a command is a task with two possible suspension     *)
(* points, `send().await` and `json().await`.  The remote endpoint, the    *)
(* transport and the passage of time are the environment.                  *)
(***************************************************************************)
EXTENDS Integers, Sequences, FiniteSets, TLC

VARIABLES
    pc,        \* pc[c]: where task c is: "idle", "send_await", "json_await", "returned"
    call,      \* call[c]: the command invoked and its arguments
    sent,      \* sent[c]: the requests task c handed to the HTTP layer, in order
    timer,     \* timer[c]: seconds the pending send() of task c has been waiting
    resp,      \* resp[c]: what task c received from the endpoint
    result,    \* result[c]: the Result the command returned
    codec_pc,  \* position of the serde round trip: "start", "encoded", "decoded"
    codec_in,  \* the Vec<ChatMessage> being serialized
    codec_wire,\* its JSON encoding
    codec_out  \* the Result of deserializing codec_wire

vars == <<pc, call, sent, timer, resp, result, codec_pc, codec_in, codec_wire, codec_out>>
callVars == <<pc, call, sent, timer, resp, result>>
codecVars == <<codec_pc, codec_in, codec_wire, codec_out>>

----------------------------------------------------------------------------
(* Bounds of the model *)

NumCalls == 2      \* concurrent task slots
MaxHist == 2       \* longest conversation_history
MaxElapsed == 6    \* the clock of a pending send() is not counted beyond this

(* Program constants *)

TIMEOUT_SECS == 5  \* Duration::from_secs(5)

Calls == 1..NumCalls

----------------------------------------------------------------------------
(* Option<T>: None is the empty tuple, Some(x) the one-element tuple *)

None == <<>>
Some(x) == <<x>>
IsSome(o) == o # <<>>
Unwrap(o) == o[1]

(* Sequences over S of length at most n *)
SeqUpTo(S, n) == UNION {[1..k -> S] : k \in 0..n}

----------------------------------------------------------------------------
(* JSON values as serde_json sees them.  An object is the sequence of its  *)
(* members in document order (so a repeated key is representable), an      *)
(* array the sequence of its items; "invalid" is a body that is no JSON    *)
(* document at all (malformed or empty text).                              *)

JNull == [t |-> "null", s |-> "", kv |-> <<>>]
JStr(x) == [t |-> "str", s |-> x, kv |-> <<>>]
JNum(x) == [t |-> "num", s |-> x, kv |-> <<>>]
JObj(members) == [t |-> "obj", s |-> "", kv |-> members]
JArr(items) == [t |-> "arr", s |-> "", kv |-> [i \in 1..Len(items) |-> [k |-> "", v |-> items[i]]]]
JInvalid(text) == [t |-> "invalid", s |-> text, kv |-> <<>>]
Member(key, value) == [k |-> key, v |-> value]

(* Mutation of SerOption: an empty string is written as null *)
SerOptionEmptyAsNull(o) ==
    IF o # <<>> /\ o[1] # "" THEN [t |-> "str", s |-> o[1], kv |-> <<>>]
    ELSE [t |-> "null", s |-> "", kv |-> <<>>]

(* Serialize for String and Option<String> *)
SerString(x) == JStr(x)
SerOption(o) == IF IsSome(o) THEN JStr(Unwrap(o)) ELSE JNull

(* #[derive(Serialize)] struct ChatMessage *)
SerChatMessage(m) ==
    JObj(<< Member("role", SerString(m.role)),
            Member("content", SerString(m.content)),
            Member("timestamp", SerOption(m.timestamp)) >>)

(* Serialize for Vec<ChatMessage> *)
SerHistory(h) == JArr([i \in 1..Len(h) |-> SerChatMessage(h[i])])

(* #[derive(Serialize)] struct ApiRequest *)
SerApiRequest(r) ==
    JObj(<< Member("user_input", SerString(r.user_input)),
            Member("conversation_history", SerHistory(r.conversation_history)),
            Member("user_guid", SerOption(r.user_guid)) >>)

----------------------------------------------------------------------------
(* Deserialization.  A decoding result is [ok, val, err]; a struct under   *)
(* construction maps each field name to <<>> (not seen yet) or <<o>>,      *)
(* where o is the Option<String> read for it (Some(s) for a String field). *)

Field(name, optional) == [name |-> name, opt |-> optional]

ChatMessageFields ==
    << Field("role", FALSE), Field("content", FALSE), Field("timestamp", TRUE) >>

ApiResponseFields ==
    << Field("assistant_response", FALSE), Field("voice_response", TRUE),
       Field("agent_logs", TRUE), Field("user_guid", TRUE) >>

FieldNames(fields) == {fields[i].name : i \in 1..Len(fields)}
FieldOf(fields, name) == fields[CHOOSE i \in 1..Len(fields) : fields[i].name = name]

(* Deserialize for String / Option<String>: <<o>> on success, <<>> on a    *)
(* value of the wrong type.                                                *)
DeFieldValue(f, v) ==
    IF v.t = "str" THEN << Some(v.s) >>
    ELSE IF v.t = "null" /\ f.opt THEN << None >>
    ELSE <<>>

(* The derived visit_map: members in document order; a known key seen      *)
(* twice is "duplicate field", a value of the wrong type "invalid type",   *)
(* an unknown key is skipped.                                              *)
RECURSIVE VisitMap(_, _, _, _)
VisitMap(fields, members, i, acc) ==
    IF i > Len(members) THEN [ok |-> TRUE, acc |-> acc, err |-> ""]
    ELSE LET key == members[i].k
             val == members[i].v
         IN IF key \notin FieldNames(fields)
            THEN VisitMap(fields, members, i + 1, acc)
            ELSE IF acc[key] # <<>>
            THEN [ok |-> FALSE, acc |-> acc, err |-> "duplicate field"]
            ELSE LET d == DeFieldValue(FieldOf(fields, key), val)
                 IN IF d = <<>>
                    THEN [ok |-> FALSE, acc |-> acc, err |-> "invalid type"]
                    ELSE VisitMap(fields, members, i + 1, [acc EXCEPT ![key] = d])

(* Mutation of FinishMap: every field never seen is "missing field" *)
FinishMapAllRequired(fields, r) ==
    IF ~r.ok THEN r
    ELSE IF \E i \in 1..Len(fields) : r.acc[fields[i].name] = <<>>
    THEN [ok |-> FALSE, acc |-> r.acc, err |-> "missing field"]
    ELSE r

(* After the members: a field never seen is None when it is an Option and  *)
(* "missing field" otherwise.                                              *)
FinishMap(fields, r) ==
    IF ~r.ok THEN r
    ELSE IF \E i \in 1..Len(fields) : ~fields[i].opt /\ r.acc[fields[i].name] = <<>>
    THEN [ok |-> FALSE, acc |-> r.acc, err |-> "missing field"]
    ELSE [ok |-> TRUE,
          acc |-> [n \in FieldNames(fields) |->
                      IF r.acc[n] = <<>> THEN << None >> ELSE r.acc[n]],
          err |-> ""]

(* The derived visit_seq: one item per field, in declaration order; too    *)
(* few or too many items is "invalid length".                              *)
VisitSeq(fields, items) ==
    LET empty == [n \in FieldNames(fields) |-> <<>>]
    IN IF Len(items) # Len(fields)
       THEN [ok |-> FALSE, acc |-> empty, err |-> "invalid length"]
       ELSE IF \E i \in 1..Len(fields) : DeFieldValue(fields[i], items[i].v) = <<>>
       THEN [ok |-> FALSE, acc |-> empty, err |-> "invalid type"]
       ELSE [ok |-> TRUE,
             acc |-> [n \in FieldNames(fields) |->
                         DeFieldValue(FieldOf(fields, n),
                                      items[CHOOSE i \in 1..Len(fields) : fields[i].name = n].v)],
             err |-> ""]

(* deserialize_struct of serde_json *)
DeStruct(fields, j) ==
    LET empty == [n \in FieldNames(fields) |-> <<>>]
    IN IF j.t = "obj" THEN FinishMap(fields, VisitMap(fields, j.kv, 1, empty))
       ELSE IF j.t = "arr" THEN VisitSeq(fields, j.kv)
       ELSE IF j.t = "invalid" THEN [ok |-> FALSE, acc |-> empty, err |-> "syntax"]
       ELSE [ok |-> FALSE, acc |-> empty, err |-> "invalid type"]

NoChatMessage == [role |-> "", content |-> "", timestamp |-> None]

(* #[derive(Deserialize)] struct ChatMessage *)
DeChatMessage(j) ==
    LET r == DeStruct(ChatMessageFields, j)
    IN IF r.ok
       THEN [ok |-> TRUE, err |-> "",
             val |-> [role |-> Unwrap(r.acc["role"][1]),
                      content |-> Unwrap(r.acc["content"][1]),
                      timestamp |-> r.acc["timestamp"][1]]]
       ELSE [ok |-> FALSE, err |-> r.err, val |-> NoChatMessage]

(* Deserialize for Vec<ChatMessage> *)
DeHistory(j) ==
    IF j.t # "arr" THEN [ok |-> FALSE, err |-> "invalid type", val |-> <<>>]
    ELSE LET items == [i \in 1..Len(j.kv) |-> DeChatMessage(j.kv[i].v)]
         IN IF \E i \in 1..Len(items) : ~items[i].ok
            THEN [ok |-> FALSE, err |-> "invalid item", val |-> <<>>]
            ELSE [ok |-> TRUE, err |-> "",
                  val |-> [i \in 1..Len(items) |-> items[i].val]]

NoApiResponse ==
    [assistant_response |-> "", voice_response |-> None,
     agent_logs |-> None, user_guid |-> None]

(* #[derive(Deserialize)] struct ApiResponse *)
DeApiResponse(j) ==
    LET r == DeStruct(ApiResponseFields, j)
    IN IF r.ok
       THEN [ok |-> TRUE, err |-> "",
             val |-> [assistant_response |-> Unwrap(r.acc["assistant_response"][1]),
                      voice_response |-> r.acc["voice_response"][1],
                      agent_logs |-> r.acc["agent_logs"][1],
                      user_guid |-> r.acc["user_guid"][1]]]
       ELSE [ok |-> FALSE, err |-> r.err, val |-> NoApiResponse]

----------------------------------------------------------------------------
(* The commands' arguments.  test_endpoint takes only endpoint_url and     *)
(* api_key; the remaining fields of its record stay at their fillers.      *)

SendArgs(urls, keys, inputs, histories, guids) ==
    [op : {"send_chat_message"}, endpoint_url : urls, api_key : keys,
     user_input : inputs, conversation_history : histories, user_guid : guids]

TestArgs(urls, keys) ==
    [op : {"test_endpoint"}, endpoint_url : urls, api_key : keys,
     user_input : {""}, conversation_history : {<<>>}, user_guid : {None}]

NoCall ==
    [op |-> "none", endpoint_url |-> "", api_key |-> None,
     user_input |-> "", conversation_history |-> <<>>, user_guid |-> None]

----------------------------------------------------------------------------
(* The HTTP layer's builder calls *)

(* Mutation of NewClient: the chat client is built with the probe's timeout *)
NewClientWithTimeout == [timeout |-> <<TIMEOUT_SECS>>]

(* Mutation of TimeoutClient: the timeout is not set *)
TimeoutClientUnset == [timeout |-> <<>>]

(* reqwest::Client::new(): returns the Client itself, not a Result *)
NewClient == [timeout |-> None]

(* reqwest::Client::builder().timeout(Duration::from_secs(5)).build() *)
TimeoutClient == [timeout |-> Some(TIMEOUT_SECS)]

(* client.post(&endpoint_url) *)
Post(client, url) ==
    [method |-> "POST", url |-> url, headers |-> <<>>, body |-> JNull,
     timeout |-> client.timeout]

(* request_builder.header(name, value) *)
Header(rb, name, value) ==
    [rb EXCEPT !.headers = Append(@, [name |-> name, value |-> value])]

HasHeader(rb, name) == \E i \in 1..Len(rb.headers) : rb.headers[i].name = name

(* request_builder.json(&request): the body is the serialized request, and *)
(* Content-Type is added only when the builder carries none yet.           *)
Json(rb, request) ==
    LET withBody == [rb EXCEPT !.body = SerApiRequest(request)]
    IN IF HasHeader(rb, "Content-Type") THEN withBody
       ELSE Header(withBody, "Content-Type", "application/json")

(* Mutation of WithApiKey: the is_empty test is left out *)
WithApiKeyUnchecked(rb, api_key) ==
    IF api_key # <<>>
    THEN [rb EXCEPT !.headers = Append(@, [name |-> "x-functions-key", value |-> api_key[1]])]
    ELSE rb

(* if let Some(key) = api_key { if !key.is_empty() { header(...) } } *)
WithApiKey(rb, api_key) ==
    IF IsSome(api_key) /\ Unwrap(api_key) # ""
    THEN Header(rb, "x-functions-key", Unwrap(api_key))
    ELSE rb

(* Mutation of ChatApiRequest: the user_guid is not passed on *)
ChatApiRequestNoGuid(a) ==
    [user_input |-> a.user_input,
     conversation_history |-> a.conversation_history,
     user_guid |-> <<>>]

(* let request = ApiRequest { user_input, conversation_history, user_guid } *)
ChatApiRequest(a) ==
    [user_input |-> a.user_input,
     conversation_history |-> a.conversation_history,
     user_guid |-> a.user_guid]

(* let request = ApiRequest { "ping", vec![], None } *)
PingApiRequest ==
    [user_input |-> "ping", conversation_history |-> <<>>, user_guid |-> None]

(* The request send_chat_message hands to send() *)
SendChatRequest(a) ==
    WithApiKey(
        Json(Header(Post(NewClient, a.endpoint_url), "Content-Type", "application/json"),
             ChatApiRequest(a)),
        a.api_key)

(* The request test_endpoint hands to send() *)
TestEndpointRequest(a) ==
    WithApiKey(
        Json(Header(Post(TimeoutClient, a.endpoint_url), "Content-Type", "application/json"),
             PingApiRequest),
        a.api_key)

----------------------------------------------------------------------------
(* The commands' results.  An Err(String) is kept as the fixed text the    *)
(* command puts in front (prefix), the status code it formats (code, 0 if  *)
(* none) and the cause text of the underlying error.                       *)

NoResult ==
    [kind |-> "none", bool |-> FALSE, response |-> NoApiResponse,
     prefix |-> "", code |-> 0, cause |-> ""]

OkResponse(r) == [NoResult EXCEPT !.kind = "ok_response", !.response = r]
OkBool(b) == [NoResult EXCEPT !.kind = "ok_bool", !.bool = b]
Err(prefix, code, cause) ==
    [NoResult EXCEPT !.kind = "err", !.prefix = prefix, !.code = code, !.cause = cause]

(* StatusCode::is_success *)
IsSuccess(status) == status >= 200 /\ status < 300

(* .send().await.map_err(|e| format!("Network error: {}", e))? *)
ChatSendError(cause) == Err("Network error: ", 0, cause)

(* return Err(format!("API error: HTTP {}", response.status())) *)
ChatStatusError(status) == Err("API error: HTTP ", status, "")

(* response.json::<ApiResponse>().await.map_err(|e| format!("Failed to     *)
(* parse response: {}", e)): json() reads the whole body, then decodes it; *)
(* an error of either step is the Err of json().                           *)
ChatJsonResult(read) ==
    IF ~read.complete THEN Err("Failed to parse response: ", 0, read.cause)
    ELSE LET d == DeApiResponse(read.body)
         IN IF d.ok THEN OkResponse(d.val)
            ELSE Err("Failed to parse response: ", 0, d.err)

(* Client::builder()...build().map_err(|e| e.to_string())? *)
TestBuildError(cause) == Err("", 0, cause)

(* request_builder.send().await.map_err(|e| e.to_string())? *)
TestSendError(cause) == Err("", 0, cause)

(* Mutation of TestStatusResult: a non-success status is an error, as in  *)
(* send_chat_message                                                       *)
TestStatusResultStrict(status) ==
    IF status >= 200 /\ status < 300 THEN OkBool(TRUE)
    ELSE Err("API error: HTTP ", status, "")

(* Ok(response.status().is_success()) *)
TestStatusResult(status) == OkBool(IsSuccess(status))

----------------------------------------------------------------------------
(* What a task has received from its endpoint *)

NoResp == [got |-> "nothing", status |-> 0, body |-> JNull, cause |-> ""]
GotError(cause) == [NoResp EXCEPT !.got = "send_error", !.cause = cause]
GotHeaders(status) == [NoResp EXCEPT !.got = "headers", !.status = status]
GotBody(r, body) == [r EXCEPT !.got = "body", !.body = body]
GotBodyError(r, cause) == [r EXCEPT !.got = "body_error", !.cause = cause]

NoCodecOut == [ok |-> FALSE, err |-> "", val |-> <<>>]

Init ==
    /\ pc = [c \in Calls |-> "idle"]
    /\ call = [c \in Calls |-> NoCall]
    /\ sent = [c \in Calls |-> <<>>]
    /\ timer = [c \in Calls |-> 0]
    /\ resp = [c \in Calls |-> NoResp]
    /\ result = [c \in Calls |-> NoResult]
    /\ codec_pc = "start"
    /\ codec_in = <<>>
    /\ codec_wire = JNull
    /\ codec_out = NoCodecOut

(* The command returns r *)
Return(c, r) ==
    /\ pc' = [pc EXCEPT ![c] = "returned"]
    /\ result' = [result EXCEPT ![c] = r]
    /\ timer' = [timer EXCEPT ![c] = 0]

(* send_chat_message up to its first suspension, send().await *)
InvokeSend(c, a) ==
    /\ pc[c] = "idle"
    /\ a.op = "send_chat_message"
    /\ call' = [call EXCEPT ![c] = a]
    /\ sent' = [sent EXCEPT ![c] = Append(@, SendChatRequest(a))]
    /\ pc' = [pc EXCEPT ![c] = "send_await"]
    /\ UNCHANGED <<timer, resp, result, codecVars>>

(* test_endpoint up to its first suspension, send().await *)
InvokeTest(c, a) ==
    /\ pc[c] = "idle"
    /\ a.op = "test_endpoint"
    /\ call' = [call EXCEPT ![c] = a]
    /\ sent' = [sent EXCEPT ![c] = Append(@, TestEndpointRequest(a))]
    /\ pc' = [pc EXCEPT ![c] = "send_await"]
    /\ UNCHANGED <<timer, resp, result, codecVars>>

(* test_endpoint when build() fails: the `?` returns before any request    *)
(* is made.                                                                *)
TestBuildFails(c, a, cause) ==
    /\ pc[c] = "idle"
    /\ a.op = "test_endpoint"
    /\ call' = [call EXCEPT ![c] = a]
    /\ Return(c, TestBuildError(cause))
    /\ UNCHANGED <<sent, resp, codecVars>>

(* The error of send(), mapped by the awaiting command, which returns it *)
SendErrorResult(op, cause) ==
    IF op = "send_chat_message" THEN ChatSendError(cause) ELSE TestSendError(cause)

(* Mutation of SendFails: the request is sent again after a failure *)
SendFailsRetry(c, cause) ==
    /\ pc[c] = "send_await"
    /\ sent' = [sent EXCEPT ![c] = Append(@, @[Len(@)])]
    /\ timer' = [timer EXCEPT ![c] = 0]
    /\ UNCHANGED <<pc, call, resp, result, codecVars>>

(* Mutation of SendFails: the failure of one connection fails every        *)
(* pending send(), as with a client shared and poisoned                    *)
SendFailsAll(c, cause) ==
    /\ pc[c] = "send_await"
    /\ LET hit == {d \in Calls : pc[d] = "send_await"}
       IN /\ resp' = [d \in Calls |-> IF d \in hit THEN GotError(cause) ELSE resp[d]]
          /\ pc' = [d \in Calls |-> IF d \in hit THEN "returned" ELSE pc[d]]
          /\ result' = [d \in Calls |->
                           IF d \in hit THEN SendErrorResult(call[d].op, cause)
                           ELSE result[d]]
          /\ timer' = [d \in Calls |-> IF d \in hit THEN 0 ELSE timer[d]]
    /\ UNCHANGED <<call, sent, codecVars>>

(* send() fails: the request could not be sent, or the connection failed   *)
(* before a response arrived.                                              *)
SendFails(c, cause) ==
    /\ pc[c] = "send_await"
    /\ resp' = [resp EXCEPT ![c] = GotError(cause)]
    /\ Return(c, SendErrorResult(call[c].op, cause))
    /\ UNCHANGED <<call, sent, codecVars>>

HasTimeout(c) == sent[c] # <<>> /\ IsSome(sent[c][Len(sent[c])].timeout)
Deadline(c) == Unwrap(sent[c][Len(sent[c])].timeout)

(* The client's timeout expires on a pending send() *)
Timeout(c) ==
    /\ pc[c] = "send_await"
    /\ HasTimeout(c)
    /\ timer[c] >= Deadline(c)
    /\ resp' = [resp EXCEPT ![c] = GotError("operation timed out")]
    /\ Return(c, SendErrorResult(call[c].op, "operation timed out"))
    /\ UNCHANGED <<call, sent, codecVars>>

(* One second passes.  A pending send() with a timeout is not left pending *)
(* past its deadline: there the timer (or a response) comes first.         *)
Tick ==
    /\ \E c \in Calls : pc[c] = "send_await" /\ timer[c] < MaxElapsed
    /\ \A c \in Calls : pc[c] = "send_await" /\ HasTimeout(c) => timer[c] < Deadline(c)
    /\ timer' = [c \in Calls |->
                    IF pc[c] = "send_await" /\ timer[c] < MaxElapsed
                    THEN timer[c] + 1 ELSE timer[c]]
    /\ UNCHANGED <<pc, call, sent, resp, result, codecVars>>

(* send() resolves with a response of the given status.  test_endpoint     *)
(* returns at once; send_chat_message returns at once on a non-success     *)
(* status and otherwise suspends in json().await.                          *)
Respond(c, status) ==
    /\ pc[c] = "send_await"
    /\ resp' = [resp EXCEPT ![c] = GotHeaders(status)]
    /\ IF call[c].op = "test_endpoint"
       THEN Return(c, TestStatusResult(status))
       ELSE IF ~IsSuccess(status)
       THEN Return(c, ChatStatusError(status))
       ELSE /\ pc' = [pc EXCEPT ![c] = "json_await"]
            /\ timer' = [timer EXCEPT ![c] = 0]
            /\ UNCHANGED result
    /\ UNCHANGED <<call, sent, codecVars>>

(* json() has read the whole body *)
BodyArrives(c, body) ==
    /\ pc[c] = "json_await"
    /\ resp' = [resp EXCEPT ![c] = GotBody(@, body)]
    /\ Return(c, ChatJsonResult([complete |-> TRUE, body |-> body, cause |-> ""]))
    /\ UNCHANGED <<call, sent, codecVars>>

(* The connection fails while json() is reading the body *)
BodyFails(c, cause) ==
    /\ pc[c] = "json_await"
    /\ resp' = [resp EXCEPT ![c] = GotBodyError(@, cause)]
    /\ Return(c, ChatJsonResult([complete |-> FALSE, body |-> JNull, cause |-> cause]))
    /\ UNCHANGED <<call, sent, codecVars>>

(* The invoke handler delivers the result to the caller; the task is gone *)
Collect(c) ==
    /\ pc[c] = "returned"
    /\ pc' = [pc EXCEPT ![c] = "idle"]
    /\ call' = [call EXCEPT ![c] = NoCall]
    /\ sent' = [sent EXCEPT ![c] = <<>>]
    /\ resp' = [resp EXCEPT ![c] = NoResp]
    /\ result' = [result EXCEPT ![c] = NoResult]
    /\ UNCHANGED <<timer, codecVars>>

----------------------------------------------------------------------------
(* The serde round trip of a conversation history *)

Encode ==
    /\ codec_pc = "start"
    /\ codec_wire' = SerHistory(codec_in)
    /\ codec_pc' = "encoded"
    /\ UNCHANGED <<codec_in, codec_out, callVars>>

Decode ==
    /\ codec_pc = "encoded"
    /\ codec_out' = DeHistory(codec_wire)
    /\ codec_pc' = "decoded"
    /\ UNCHANGED <<codec_in, codec_wire, callVars>>

----------------------------------------------------------------------------
(* Inputs of the commands *)

Urls == {"https://a.test/api", "https://b.test/api"}
ApiKeys == {None, Some(""), Some("secret")}
UserInputs == {"hello", "ping"}
Guids == {None, Some("guid-1")}
Messages ==
    { [role |-> "user", content |-> "hi", timestamp |-> None],
      [role |-> "assistant", content |-> "hello", timestamp |-> Some("t1")] }
Histories == SeqUpTo(Messages, MaxHist)

ChatCalls == SendArgs(Urls, ApiKeys, UserInputs, Histories, Guids)
ProbeCalls == TestArgs(Urls, ApiKeys)

(* Inputs of the round trip: every combination of role, content and        *)
(* timestamp, the empty strings included.                                  *)
CodecMessages ==
    [role : {"user", ""}, content : {"hi", ""}, timestamp : {None, Some(""), Some("t1")}]
CodecHistories == SeqUpTo(CodecMessages, MaxHist)

(* What the environment can answer *)
Statuses == {200, 299, 300, 404, 500}
SendCauses == {"error sending request", "builder error"}
BodyCauses == {"error decoding response body"}
BuildCauses == {"builder error"}

ApiFieldSeq ==
    << "assistant_response", "voice_response", "agent_logs", "user_guid" >>
SampleText ==
    [assistant_response |-> "Hello!", voice_response |-> "Hello",
     agent_logs |-> "log line", user_guid |-> "guid-1"]

(* The object whose members, in declaration order, are the fields that the *)
(* choice ch does not map to "absent", each null, a string or a number.    *)
ObjectOf(ch) ==
    LET Present(n) == ch[n] # "absent"
        names == SelectSeq(ApiFieldSeq, Present)
    IN JObj([i \in 1..Len(names) |->
                Member(names[i],
                       CASE ch[names[i]] = "null" -> JNull
                         [] ch[names[i]] = "str" -> JStr(SampleText[names[i]])
                         [] OTHER -> JNum("42"))])

FieldChoices ==
    { ch \in [{"assistant_response", "voice_response", "agent_logs", "user_guid"}
                 -> {"absent", "null", "str", "num"}] :
        /\ ch["voice_response"] # "num"
        /\ ch["agent_logs"] # "num" }

GoodBody ==
    JObj(<< Member("assistant_response", JStr("Hello!")),
            Member("voice_response", JStr("Hello")),
            Member("agent_logs", JStr("log line")),
            Member("user_guid", JStr("guid-1")) >>)

OddBodies ==
    { JInvalid("not json"), JInvalid(""), JNull, JStr("Hello!"),
      JArr(<< JStr("Hello!"), JNull, JStr("log line"), JNull >>),
      JArr(<< JStr("Hello!") >>),
      JObj(<< Member("user_guid", JNull), Member("assistant_response", JStr("Hello!")) >>),
      JObj(<< Member("assistant_response", JStr("Hello!")), Member("extra", JNum("1")) >>),
      JObj(<< Member("assistant_response", JStr("Hello!")),
              Member("assistant_response", JStr("again")) >>) }

Bodies == {ObjectOf(ch) : ch \in FieldChoices} \cup OddBodies

----------------------------------------------------------------------------
(* One caller, invoking one command after another, over all the inputs *)

Next ==
    \/ \E a \in ChatCalls : InvokeSend(1, a)
    \/ \E a \in ProbeCalls : InvokeTest(1, a)
    \/ \E a \in ProbeCalls : \E e \in BuildCauses : TestBuildFails(1, a, e)
    \/ \E e \in SendCauses : SendFails(1, e)
    \/ Timeout(1)
    \/ Tick
    \/ \E s \in Statuses : Respond(1, s)
    \/ \E b \in Bodies : BodyArrives(1, b)
    \/ \E e \in BodyCauses : BodyFails(1, e)
    \/ Collect(1)

Spec == Init /\ [][Next]_vars

(* Concurrent callers, over a few inputs of each kind *)

ConcChatCalls ==
    { [op |-> "send_chat_message", endpoint_url |-> "https://a.test/api",
       api_key |-> Some("secret"), user_input |-> "hello",
       conversation_history |-> << [role |-> "user", content |-> "hi", timestamp |-> None] >>,
       user_guid |-> Some("guid-1")],
      [op |-> "send_chat_message", endpoint_url |-> "https://a.test/api",
       api_key |-> None, user_input |-> "ping",
       conversation_history |-> <<>>, user_guid |-> None] }
ConcProbeCalls == TestArgs({"https://a.test/api"}, {None, Some("secret")})
ConcStatuses == {200, 500}
ConcBodies == {GoodBody, JInvalid("not json")}
ConcCauses == {"error sending request"}

NextConc ==
    \E c \in Calls :
        \/ \E a \in ConcChatCalls : InvokeSend(c, a)
        \/ \E a \in ConcProbeCalls : InvokeTest(c, a)
        \/ \E a \in ConcProbeCalls : \E e \in BuildCauses : TestBuildFails(c, a, e)
        \/ \E e \in ConcCauses : SendFails(c, e)
        \/ Timeout(c)
        \/ Tick
        \/ \E s \in ConcStatuses : Respond(c, s)
        \/ \E b \in ConcBodies : BodyArrives(c, b)
        \/ \E e \in BodyCauses : BodyFails(c, e)
        \/ Collect(c)

SpecConc == Init /\ [][NextConc]_vars

(* Time passes and timers fire: the runtime's clock and timer wheel.  No   *)
(* fairness is assumed of the endpoint, the transport or the callers.      *)
SpecLive ==
    /\ Init
    /\ [][NextConc]_vars
    /\ WF_vars(Tick)
    /\ \A c \in Calls : WF_vars(Timeout(c))

(* The round trip alone, over all the histories *)

InitCodec ==
    /\ pc = [c \in Calls |-> "idle"]
    /\ call = [c \in Calls |-> NoCall]
    /\ sent = [c \in Calls |-> <<>>]
    /\ timer = [c \in Calls |-> 0]
    /\ resp = [c \in Calls |-> NoResp]
    /\ result = [c \in Calls |-> NoResult]
    /\ codec_pc = "start"
    /\ codec_in \in CodecHistories
    /\ codec_wire = JNull
    /\ codec_out = NoCodecOut

NextCodec == Encode \/ Decode

SpecCodec == InitCodec /\ [][NextCodec]_vars

----------------------------------------------------------------------------
(* Vocabulary of the properties *)

IsChat(c) == call[c].op = "send_chat_message"
IsProbe(c) == call[c].op = "test_endpoint"
Returned(c) == pc[c] = "returned"
InRange2xx(status) == status \in 200..299
KeySupplied(key) == key # <<>> /\ key[1] # ""
HeaderIndexes(r, name) == {i \in 1..Len(r.headers) : r.headers[i].name = name}
MembersNamed(j, name) == {i \in 1..Len(j.kv) : j.kv[i].k = name}

----------------------------------------------------------------------------
(* C1: every returned send_chat_message has exactly one of four outcomes,  *)
(* decided in this order: a failure to send or a failed connection gives   *)
(* the transport error "Network error: ..."; otherwise a status outside    *)
(* 200-299 gives the API error carrying that status; otherwise a body that *)
(* does not decode gives "Failed to parse response: ..."; otherwise the    *)
(* decoded response is returned.  No two conditions share a kind of        *)
(* result.                                                                 *)
C1_FourOutcomes ==
    \A c \in Calls :
        IsChat(c) /\ Returned(c) =>
            LET r == resp[c]
                connectionFailed == r.got \in {"send_error", "body_error"}
                out == result[c]
            IN /\ connectionFailed =>
                      out.kind = "err" /\ out.prefix = "Network error: "
               /\ ~connectionFailed /\ ~InRange2xx(r.status) =>
                      out.kind = "err" /\ out.prefix = "API error: HTTP "
                                       /\ out.code = r.status
               /\ ~connectionFailed /\ InRange2xx(r.status) /\ ~DeApiResponse(r.body).ok =>
                      out.kind = "err" /\ out.prefix = "Failed to parse response: "
               /\ ~connectionFailed /\ InRange2xx(r.status) /\ DeApiResponse(r.body).ok =>
                      out.kind = "ok_response" /\ out.response = DeApiResponse(r.body).val

(* C2: a request of either command carries x-functions-key exactly when    *)
(* api_key is present and non-empty, once, with the key as its value; it   *)
(* carries Content-Type: application/json in every case.                   *)
C2_ApiKeyHeader ==
    \A c \in Calls : \A k \in 1..Len(sent[c]) :
        LET r == sent[c][k]
            key == call[c].api_key
            keyed == HeaderIndexes(r, "x-functions-key")
            typed == HeaderIndexes(r, "Content-Type")
        IN /\ (keyed # {}) <=> KeySupplied(key)
           /\ Cardinality(keyed) <= 1
           /\ \A i \in keyed : r.headers[i].value = key[1]
           /\ typed # {}
           /\ \A i \in typed : r.headers[i].value = "application/json"

C2_Witness ==
    \E c \in Calls :
        /\ IsChat(c) /\ pc[c] = "send_await"
        /\ call[c].api_key = <<"secret">>
        /\ \E i \in 1..Len(sent[c][1].headers) :
               sent[c][1].headers[i] = [name |-> "x-functions-key", value |-> "secret"]

(* C3: a test_endpoint that received a response returned Ok(true) when the *)
(* status is in 200-299 and Ok(false) otherwise, never an error; it never  *)
(* waits for, reads or parses the body.                                    *)
C3_ProbeBoolean ==
    \A c \in Calls :
        IsProbe(c) =>
            /\ pc[c] # "json_await"
            /\ resp[c].got \notin {"body", "body_error"}
            /\ resp[c].got = "headers" =>
                   /\ Returned(c)
                   /\ result[c].kind = "ok_bool"
                   /\ result[c].bool = InRange2xx(resp[c].status)

C3_Witness ==
    \E c \in Calls :
        /\ IsProbe(c) /\ Returned(c)
        /\ resp[c].got = "headers" /\ resp[c].status = 404
        /\ result[c].kind = "ok_bool" /\ result[c].bool = FALSE

ProbePending(c) == IsProbe(c) /\ pc[c] = "send_await"

(* C4: every test_endpoint that is waiting for its response eventually     *)
(* returns; it is never left waiting beyond the 5 seconds, and when the    *)
(* timeout ends it the result is an error, not the boolean false.          *)
C4_ProbeReturns ==
    /\ \A c \in Calls : ProbePending(c) ~> Returned(c)
    /\ [](\A c \in Calls :
            /\ ProbePending(c) => timer[c] <= 5
            /\ IsProbe(c) /\ resp[c].cause = "operation timed out" =>
                   Returned(c) /\ result[c].kind = "err")

C4_Witness ==
    \E c \in Calls :
        /\ IsProbe(c) /\ Returned(c)
        /\ resp[c] = [got |-> "send_error", status |-> 0, body |-> JNull,
                      cause |-> "operation timed out"]
        /\ result[c].kind = "err" /\ result[c].cause = "operation timed out"

ChatPending(c) == IsChat(c) /\ pc[c] \in {"send_await", "json_await"}

(* C5: a send_chat_message carries no timeout, and it leaves a suspension  *)
(* only because the endpoint answered (a status, a body) or the transport  *)
(* failed, never because time passed.                                      *)
C5_ChatUnbounded ==
    [][\A c \in Calls :
          /\ IsChat(c)' => \A k \in 1..Len(sent'[c]) : sent'[c][k].timeout = <<>>
          /\ ChatPending(c) /\ pc'[c] # pc[c] =>
                 /\ resp'[c] # resp[c]
                 /\ resp'[c].got \in {"headers", "body", "body_error", "send_error"}
                 /\ resp'[c].cause # "operation timed out"]_vars

C5_Witness ==
    \E c \in Calls : IsChat(c) /\ pc[c] = "send_await" /\ timer[c] > 5

BuildFailed(c) == IsProbe(c) /\ Returned(c) /\ resp[c].got = "nothing"

Local(c) == <<pc[c], call[c], sent[c], resp[c], result[c]>>

(* C7: calls are independent under every interleaving.  A step of one call *)
(* (an outcome, a failure, a timeout, a return) leaves the arguments, the  *)
(* request, the response and the result of every other call as they were;  *)
(* and two calls with the same arguments sent the same request and, given  *)
(* the same response, returned the same result, whatever else was running. *)
C7_Independent ==
    /\ [][\A c \in Calls : \A d \in Calls \ {c} :
             Local(c)' # Local(c) => Local(d)' = Local(d) /\ timer'[d] = timer[d]]_vars
    /\ [](\A c \in Calls : \A d \in Calls \ {c} :
             call[c] = call[d] /\ call[c].op # "none" =>
                 /\ sent[c] # <<>> /\ sent[d] # <<>> => sent[c] = sent[d]
                 /\ Returned(c) /\ Returned(d) /\ resp[c] = resp[d] =>
                        result[c] = result[d])

C7_Witness ==
    \E c \in Calls : \E d \in Calls \ {c} :
        /\ IsChat(c) /\ pc[c] = "send_await" /\ timer[c] > 5
        /\ IsChat(d) /\ Returned(d) /\ result[d].kind = "ok_response"
        /\ call[c] = call[d]

OptionalFields == {"voice_response", "agent_logs", "user_guid"}
WellFormedBody(j) ==
    /\ j.t = "obj"
    /\ \A n \in OptionalFields \cup {"assistant_response"} :
           Cardinality(MembersNamed(j, n)) <= 1
    /\ \E i \in MembersNamed(j, "assistant_response") : j.kv[i].v.t = "str"
    /\ \A n \in OptionalFields : \A i \in MembersNamed(j, n) :
           j.kv[i].v.t \in {"null", "str"}

(* C8: a 2xx body that is an object with a string assistant_response and   *)
(* with each of voice_response, agent_logs and user_guid absent, null or a *)
(* string makes send_chat_message succeed; an absent or null optional      *)
(* field decodes to None, a string to Some of it.                          *)
C8_OptionalFields ==
    \A c \in Calls :
        IsChat(c) /\ Returned(c) /\ resp[c].got = "body" /\ WellFormedBody(resp[c].body) =>
            LET j == resp[c].body
                out == result[c]
            IN /\ out.kind = "ok_response"
               /\ \A i \in MembersNamed(j, "assistant_response") :
                      out.response["assistant_response"] = j.kv[i].v.s
               /\ \A n \in OptionalFields :
                      IF \E i \in MembersNamed(j, n) : j.kv[i].v.t = "str"
                      THEN \A i \in MembersNamed(j, n) : out.response[n] = <<j.kv[i].v.s>>
                      ELSE out.response[n] = <<>>

C8_Witness ==
    \E c \in Calls :
        /\ IsChat(c) /\ Returned(c) /\ resp[c].got = "body"
        /\ resp[c].body.t = "obj"
        /\ MembersNamed(resp[c].body, "assistant_response") # {}
        /\ MembersNamed(resp[c].body, "voice_response") = {}
        /\ MembersNamed(resp[c].body, "agent_logs") = {}
        /\ \E i \in MembersNamed(resp[c].body, "user_guid") : resp[c].body.kv[i].v.t = "null"
        /\ result[c].kind = "ok_response"
        /\ result[c].response.voice_response = <<>>
        /\ result[c].response.user_guid = <<>>

(* C9: serializing a sequence of ChatMessage and deserializing the JSON    *)
(* gives back an equal sequence: same length, same order, same role,       *)
(* content and timestamp (present or absent) at every position.            *)
C9_RoundTrip ==
    codec_pc = "decoded" =>
        /\ codec_out.ok
        /\ Len(codec_out.val) = Len(codec_in)
        /\ \A i \in 1..Len(codec_in) :
               /\ codec_out.val[i].role = codec_in[i].role
               /\ codec_out.val[i].content = codec_in[i].content
               /\ codec_out.val[i].timestamp = codec_in[i].timestamp

C9_Witness ==
    /\ codec_pc = "decoded"
    /\ Len(codec_in) = 2
    /\ codec_in[1].timestamp = <<>>
    /\ codec_in[2].timestamp = <<"">>
    /\ codec_in[1].role # codec_in[2].role
    /\ codec_out.ok /\ codec_out.val[2].timestamp = <<"">>

PingBody ==
    [t |-> "obj", s |-> "",
     kv |-> << [k |-> "user_input", v |-> [t |-> "str", s |-> "ping", kv |-> <<>>]],
               [k |-> "conversation_history", v |-> [t |-> "arr", s |-> "", kv |-> <<>>]],
               [k |-> "user_guid", v |-> [t |-> "null", s |-> "", kv |-> <<>>]] >>]
JsonOfOption(o) ==
    IF o = <<>> THEN [t |-> "null", s |-> "", kv |-> <<>>]
    ELSE [t |-> "str", s |-> o[1], kv |-> <<>>]

(* C10: the body test_endpoint sends is always {"user_input": "ping",      *)
(* "conversation_history": [], "user_guid": null}, whatever its arguments, *)
(* which decide only the URL and the key header; the body send_chat_message*)
(* sends carries the caller's user_input, its conversation_history item by *)
(* item in the caller's order, and its user_guid.                          *)
C10_RequestBody ==
    \A c \in Calls : \A k \in 1..Len(sent[c]) :
        LET r == sent[c][k]
            a == call[c]
        IN /\ r.method = "POST"
           /\ r.url = a.endpoint_url
           /\ IsProbe(c) => r.body = PingBody
           /\ IsChat(c) =>
                  /\ r.body.t = "obj"
                  /\ Len(r.body.kv) = 3
                  /\ r.body.kv[1] = [k |-> "user_input",
                                     v |-> [t |-> "str", s |-> a.user_input, kv |-> <<>>]]
                  /\ r.body.kv[3] = [k |-> "user_guid", v |-> JsonOfOption(a.user_guid)]
                  /\ r.body.kv[2].k = "conversation_history"
                  /\ r.body.kv[2].v.t = "arr"
                  /\ Len(r.body.kv[2].v.kv) = Len(a.conversation_history)
                  /\ \A i \in 1..Len(a.conversation_history) :
                         LET m == r.body.kv[2].v.kv[i].v
                             h == a.conversation_history[i]
                         IN /\ m.t = "obj"
                            /\ m.kv = << [k |-> "role",
                                          v |-> [t |-> "str", s |-> h.role, kv |-> <<>>]],
                                         [k |-> "content",
                                          v |-> [t |-> "str", s |-> h.content, kv |-> <<>>]],
                                         [k |-> "timestamp", v |-> JsonOfOption(h.timestamp)] >>

C10_Witness ==
    \E c \in Calls :
        /\ IsChat(c) /\ pc[c] = "send_await"
        /\ Len(call[c].conversation_history) = 2
        /\ call[c].conversation_history[1] # call[c].conversation_history[2]
        /\ call[c].user_guid = <<"guid-1">>
        /\ sent[c][1].body.kv[2].v.kv[1].v.kv[1].v.s = call[c].conversation_history[1].role

====
